---- MODULE Spec2Model ----
(***************************************************************************)
(* Healthcare AI Pod: the record store (backend/database/sqlite_manager.py) *)
(* on its one shared sqlite3 connection, the request handlers of            *)
(* backend/app.py and the rule-based agents they call.                      *)
(*                                                                          *)
(* Spec        : the store's writing operations run by concurrent request   *)
(*               threads, one sqlite statement (or commit / rollback) per   *)
(*               step.                                                      *)
(* SeqSpec     : the store's operations, reads included, one call at a time.*)
(* SessionSpec : the session operations and the clock, concurrent.          *)
(* PipeSpec    : the HTTP handlers of app.py, one request per step.         *)
(* ThresholdSpec : message requests on messages around the score thresholds.*)
(* FnSpec      : the agents' functions applied to enumerated arguments.     *)
(* KnowSpec    : the knowledge retrieval, each search failing on its own.   *)
(***************************************************************************)
EXTENDS Integers, Sequences, FiniteSets, TLC

VARIABLES
    db,         \* the tables as the shared connection sees them (pending transaction included)
    committed,  \* the tables as committed: what any other reader sees
    now,        \* the clock, in ticks of 1/TicksPerSecond second
    pc,         \* per request thread: the statement it executes next
    req,        \* per request thread: the arguments and the result of its call
    nops,       \* calls started so far
    nfaults,    \* statements the environment has failed so far
    nuuid,      \* uuid4 values drawn so far
    cookie,     \* the client's Flask session: patient_id and session_token
    made,       \* per processed message: the decision the pipeline computed for it
    resp,       \* the last HTTP response
    out         \* the last direct call of an agent function: arguments and result

vars == <<db, committed, now, pc, req, nops, nfaults, nuuid, cookie, made, resp, out>>

storeVars == <<db, committed, now, pc, req, nops, nfaults, nuuid>>
httpVars == <<cookie, made, resp, out>>

----------------------------------------------------------------------------
(* Bounds of the model. *)

MaxOps == 2            \* calls of the store per behaviour
MaxRequests == 3       \* HTTP requests per behaviour
MaxFaults == 1         \* statements the environment may fail per behaviour
MaxTime == 4           \* last clock tick
TicksPerSecond == 3    \* clock resolution below the second of CURRENT_TIMESTAMP

Threads == {"t1", "t2"}
PatientIds == {"p1", "p2"}
ConversationIds == {"c1", "c2"}
\* expires_at values: a third of a second and one full second after time 0.
ExpiryTimes == {1, TicksPerSecond}

\* Python's None where a text is expected, and SQL NULL in an encrypted column.
None == "None"
NULL == [null |-> TRUE]

----------------------------------------------------------------------------
(* Generic helpers. *)

Rows(table) == {table[i] : i \in DOMAIN table}

DictGet(d, k, default) == IF k \in DOMAIN d THEN d[k] ELSE default

----------------------------------------------------------------------------
(* The five relations. Each table is the sequence of its rows in rowid order. *)

EmptyTables ==
    [patients |-> <<>>, sessions |-> <<>>, conversations |-> <<>>,
     audit_log |-> <<>>, triage_history |-> <<>>]

\* Fernet: the stored text is a token from which only decrypt_data recovers the data.
encrypt_data(data) == [fernet |-> data]

decrypt_data(token) == token.fernet

\* CURRENT_TIMESTAMP: 'YYYY-MM-DD HH:MM:SS', whole seconds.
CURRENT_TIMESTAMP == now \div TicksPerSecond

\* expires_at is written as the text of a datetime, microseconds included when
\* they are not zero, and compared with CURRENT_TIMESTAMP as text: a stored
\* 'HH:MM:SS.ffffff' is greater than the 'HH:MM:SS' of the same second.
StoredAfterCurrent(t) ==
    \/ t \div TicksPerSecond > CURRENT_TIMESTAMP
    \/ /\ t \div TicksPerSecond = CURRENT_TIMESTAMP
       /\ t % TicksPerSecond > 0

\* A comparison that also takes the second CURRENT_TIMESTAMP is in.
StoredBeforeOrInCurrentSecond(t) == t \div TicksPerSecond <= CURRENT_TIMESTAMP

StoredBeforeCurrent(t) == t \div TicksPerSecond < CURRENT_TIMESTAMP

----------------------------------------------------------------------------
(* The statements of sqlite_manager.py, as functions of the tables. *)

ConversationRow(a, ts) ==
    [conversation_id |-> a.conversation_id,
     patient_id |-> a.patient_id,
     encrypted_user_message |-> encrypt_data(a.user_message),
     encrypted_ai_response |-> encrypt_data(a.ai_response),
     urgency_score |-> a.urgency_score,
     escalation_triggered |-> DictGet(DictGet(a.ai_response, "escalation", <<>>), "required", FALSE),
     timestamp |-> ts]

\* A triage row whose escalation flag is not taken from the response.
TriageRowWithoutEscalation(a, ts) ==
    [patient_id |-> a.patient_id,
     conversation_id |-> a.conversation_id,
     symptoms |-> DictGet(DictGet(a.ai_response, "urgency_assessment", <<>>), "symptoms", <<>>),
     urgency_score |-> a.urgency_score,
     urgency_level |-> DictGet(DictGet(a.ai_response, "urgency_assessment", <<>>), "level", "unknown"),
     escalation_triggered |-> FALSE,
     timestamp |-> ts]

TriageRow(a, ts) ==
    [patient_id |-> a.patient_id,
     conversation_id |-> a.conversation_id,
     symptoms |-> DictGet(DictGet(a.ai_response, "urgency_assessment", <<>>), "symptoms", <<>>),
     urgency_score |-> a.urgency_score,
     urgency_level |-> DictGet(DictGet(a.ai_response, "urgency_assessment", <<>>), "level", "unknown"),
     escalation_triggered |-> DictGet(DictGet(a.ai_response, "escalation", <<>>), "required", FALSE),
     timestamp |-> ts]

AuditRow(patient_id, action, details) ==
    [patient_id |-> patient_id, action |-> action, details |-> details, success |-> TRUE]

SessionRow(a, session_id) ==
    [session_id |-> session_id, patient_id |-> a.patient_id,
     session_token |-> a.session_token, expires_at |-> a.expires_at, active |-> TRUE]

\* `demographics.get('age_range') if demographics else None`; the call without the
\* argument has demographics = None.
AgeRange(a) ==
    LET demographics == DictGet(a, "demographics", <<>>)
    IN IF demographics = <<>> THEN None ELSE DictGet(demographics, "age_range", None)

PatientRow(a) ==
    [patient_id |-> a.patient_id,
     encrypted_medical_history |->
         IF a.medical_history = "" THEN NULL ELSE encrypt_data(a.medical_history),
     age_range |-> AgeRange(a),
     active |-> TRUE]

\* conversations.conversation_id is UNIQUE: the insert raises IntegrityError.
\* A conversations table whose conversation_id column is not declared UNIQUE.
ConversationIdNeverTaken(d, cid) == FALSE

ConversationIdTaken(d, cid) == \E r \in Rows(d.conversations) : r.conversation_id = cid

\* triage_history.urgency_level is NOT NULL: the insert raises IntegrityError.
TriageNotNullViolated(a) == TriageRow(a, 0).urgency_level = None

InsertConversation(d, a, ts) ==
    [d EXCEPT !.conversations = Append(@, ConversationRow(a, ts))]

InsertTriage(d, a, ts) ==
    [d EXCEPT !.triage_history = Append(@, TriageRow(a, ts))]

InsertAudit(d, patient_id, action, details) ==
    [d EXCEPT !.audit_log = Append(@, AuditRow(patient_id, action, details))]

InsertSession(d, a, session_id) ==
    [d EXCEPT !.sessions = Append(@, SessionRow(a, session_id))]

OtherPatient(a, r) == r.patient_id # a.patient_id

\* A plain INSERT on a patient_id column that is not UNIQUE.
InsertPatientKeepingOld(d, a) ==
    [d EXCEPT !.patients = Append(@, PatientRow(a))]

\* INSERT OR REPLACE on the UNIQUE patient_id: the old row goes, a new one is added.
InsertOrReplacePatient(d, a) ==
    [d EXCEPT !.patients =
        Append(SelectSeq(@, LAMBDA r : OtherPatient(a, r)), PatientRow(a))]

\* UPDATE sessions SET active = 0 WHERE expires_at < CURRENT_TIMESTAMP AND active = 1
ExpiredAndActive(r) == StoredBeforeCurrent(r.expires_at) /\ r.active

UpdateExpiredSessions(d) ==
    [d EXCEPT !.sessions =
        [i \in DOMAIN @ |-> IF ExpiredAndActive(@[i]) THEN [@[i] EXCEPT !.active = FALSE] ELSE @[i]]]

\* SELECT ... WHERE patient_id = ? AND session_token = ? AND active = 1
\*   AND expires_at > CURRENT_TIMESTAMP
SessionMatches(r, patient_id, session_token) ==
    /\ r.patient_id = patient_id
    /\ r.session_token = session_token
    /\ r.active
    /\ StoredAfterCurrent(r.expires_at)

SelectValidSession(d, patient_id, session_token) ==
    \E r \in Rows(d.sessions) : SessionMatches(r, patient_id, session_token)

----------------------------------------------------------------------------
(* Arguments of the store's operations. *)

SessionTokens == {"tok-A", "tok-B"}
MedicalHistories == {"", "diabetes"}

\* ai_response dictionaries handed to store_conversation with their urgency_score:
\* the shape app.py builds, one whose urgency level is None, and one without an
\* 'escalation' key.
DirectResponses ==
    { [ai_response |-> [escalation |-> [required |-> TRUE, level |-> "urgent"],
                        urgency_assessment |-> [level |-> "high"]],
       urgency_score |-> 8],
      [ai_response |-> [escalation |-> [required |-> FALSE, level |-> "routine"],
                        urgency_assessment |-> [level |-> None]],
       urgency_score |-> 3],
      [ai_response |-> [urgency_assessment |-> [level |-> "low"]],
       urgency_score |-> 3] }

NoReq ==
    [op |-> "none", patient_id |-> None, conversation_id |-> None,
     user_message |-> "", ai_response |-> <<>>, urgency_score |-> 0,
     session_token |-> None, expires_at |-> 0, action |-> None,
     medical_history |-> "", ret |-> "none", failed_at |-> "none",
     snap |-> EmptyTables, at |-> 0]

\* A request is served by a free worker thread; t2 serves only while t1 is busy.
CanStart(t) ==
    /\ pc[t] = "idle"
    /\ nops < MaxOps
    /\ t = "t1" \/ pc["t1"] # "idle"

Start(t, label, r) ==
    /\ pc' = [pc EXCEPT ![t] = label]
    /\ req' = [req EXCEPT ![t] = r]
    /\ nops' = nops + 1

Goto(t, label) == pc' = [pc EXCEPT ![t] = label]

Return(t, value) ==
    /\ pc' = [pc EXCEPT ![t] = "idle"]
    /\ req' = [req EXCEPT ![t].ret = value]

Raise(t, label, where) ==
    /\ pc' = [pc EXCEPT ![t] = label]
    /\ req' = [req EXCEPT ![t].failed_at = where]

\* The environment fails a statement (sqlite3.OperationalError: disk I/O error,
\* database is locked, ...).
EnvFault == nfaults < MaxFaults /\ nfaults' = nfaults + 1

NoFault == UNCHANGED nfaults

----------------------------------------------------------------------------
(* store_conversation: insert conversation, insert triage, commit, audit. *)

store_conversation_call(t, p, c, m, a) ==
    /\ CanStart(t)
    /\ Start(t, "sc_insert_conversation",
             [NoReq EXCEPT !.op = "store_conversation", !.patient_id = p,
                           !.conversation_id = c, !.user_message = m,
                           !.ai_response = a.ai_response,
                           !.urgency_score = a.urgency_score,
                           !.snap = committed])
    /\ UNCHANGED <<db, committed, now, nfaults, nuuid, httpVars>>

store_conversation_insert_conversation(t) ==
    /\ pc[t] = "sc_insert_conversation"
    /\ \/ /\ ~ConversationIdTaken(db, req[t].conversation_id)
          /\ db' = InsertConversation(db, req[t], CURRENT_TIMESTAMP)
          /\ Goto(t, "sc_insert_triage")
          /\ UNCHANGED req
          /\ NoFault
       \/ /\ ConversationIdTaken(db, req[t].conversation_id)
          /\ Raise(t, "sc_except", "conversation")
          /\ UNCHANGED db
          /\ NoFault
       \/ /\ EnvFault
          /\ Raise(t, "sc_except", "conversation")
          /\ UNCHANGED db
    /\ UNCHANGED <<committed, now, nops, nuuid, httpVars>>

store_conversation_insert_triage(t) ==
    /\ pc[t] = "sc_insert_triage"
    /\ \/ /\ ~TriageNotNullViolated(req[t])
          /\ db' = InsertTriage(db, req[t], CURRENT_TIMESTAMP)
          /\ Goto(t, "sc_commit")
          /\ UNCHANGED req
          /\ NoFault
       \/ /\ TriageNotNullViolated(req[t])
          /\ Raise(t, "sc_except", "triage")
          /\ UNCHANGED db
          /\ NoFault
       \/ /\ EnvFault
          /\ Raise(t, "sc_except", "triage")
          /\ UNCHANGED db
    /\ UNCHANGED <<committed, now, nops, nuuid, httpVars>>

\* self.conn.commit(): everything pending on the shared connection is committed.
store_conversation_commit(t) ==
    /\ pc[t] = "sc_commit"
    /\ committed' = db
    /\ Goto(t, "audit_insert")
    /\ UNCHANGED <<db, now, req, nops, nfaults, nuuid, httpVars>>

\* The except branch without its rollback.
store_conversation_except_without_rollback(t) ==
    /\ pc[t] = "sc_except"
    /\ Return(t, "False")
    /\ UNCHANGED <<db, committed, now, nops, nfaults, nuuid, httpVars>>

\* except: self.conn.rollback(); return False. Everything pending on the shared
\* connection is rolled back.
store_conversation_except(t) ==
    /\ pc[t] = "sc_except"
    /\ db' = committed
    /\ Return(t, "False")
    /\ UNCHANGED <<committed, now, nops, nfaults, nuuid, httpVars>>

----------------------------------------------------------------------------
(* log_audit_event: insert, commit; a failure is logged and swallowed. *)

AuditAction(r) ==
    CASE r.op = "store_conversation" -> "conversation_stored"
      [] r.op = "create_patient" -> "patient_created"
      [] r.op = "create_session" -> "session_created"
      [] OTHER -> r.action

AuditDetails(r) ==
    CASE r.op = "store_conversation" -> r.conversation_id
      [] OTHER -> ""

\* What the caller of log_audit_event returns once the audit call is over.
ResultAfterAudit(r) ==
    CASE r.op = "store_conversation" -> "True"
      [] r.op = "create_patient" -> "True"
      [] r.op = "create_session" -> "session_id"
      [] OTHER -> "None"

log_audit_event_call(t, p, a) ==
    /\ CanStart(t)
    /\ Start(t, "audit_insert",
             [NoReq EXCEPT !.op = "log_audit_event", !.patient_id = p, !.action = a])
    /\ UNCHANGED <<db, committed, now, nfaults, nuuid, httpVars>>

log_audit_event_insert(t) ==
    /\ pc[t] = "audit_insert"
    /\ \/ /\ db' = InsertAudit(db, req[t].patient_id, AuditAction(req[t]), AuditDetails(req[t]))
          /\ Goto(t, "audit_commit")
          /\ UNCHANGED req
          /\ NoFault
       \/ /\ EnvFault
          /\ Return(t, ResultAfterAudit(req[t]))
          /\ UNCHANGED db
    /\ UNCHANGED <<committed, now, nops, nuuid, httpVars>>

log_audit_event_commit(t) ==
    /\ pc[t] = "audit_commit"
    /\ committed' = db
    /\ Return(t, ResultAfterAudit(req[t]))
    /\ UNCHANGED <<db, now, nops, nfaults, nuuid, httpVars>>

----------------------------------------------------------------------------
(* create_patient: INSERT OR REPLACE, commit, audit; on failure rollback. *)

create_patient_call(t, p, h) ==
    /\ CanStart(t)
    /\ Start(t, "cp_insert",
             [NoReq EXCEPT !.op = "create_patient", !.patient_id = p,
                           !.medical_history = h])
    /\ UNCHANGED <<db, committed, now, nfaults, nuuid, httpVars>>

Demographics == {<<>>, [age_range |-> "65+"], [gender |-> "F"]}

\* create_patient(patient_id, medical_history, demographics).
create_patient_with_demographics_call(t, p, h, demographics) ==
    /\ CanStart(t)
    /\ Start(t, "cp_insert",
             [NoReq EXCEPT !.op = "create_patient", !.patient_id = p,
                           !.medical_history = h]
             @@ [demographics |-> demographics])
    /\ UNCHANGED <<db, committed, now, nfaults, nuuid, httpVars>>

create_patient_insert(t) ==
    /\ pc[t] = "cp_insert"
    /\ \/ /\ db' = InsertOrReplacePatient(db, req[t])
          /\ Goto(t, "cp_commit")
          /\ UNCHANGED req
          /\ NoFault
       \/ /\ EnvFault
          /\ Raise(t, "cp_except", "patient")
          /\ UNCHANGED db
    /\ UNCHANGED <<committed, now, nops, nuuid, httpVars>>

create_patient_commit(t) ==
    /\ pc[t] = "cp_commit"
    /\ committed' = db
    /\ Goto(t, "audit_insert")
    /\ UNCHANGED <<db, now, req, nops, nfaults, nuuid, httpVars>>

create_patient_except(t) ==
    /\ pc[t] = "cp_except"
    /\ db' = committed
    /\ Return(t, "False")
    /\ UNCHANGED <<committed, now, nops, nfaults, nuuid, httpVars>>

----------------------------------------------------------------------------
(* create_session: insert, commit, audit; a failure is re-raised, no rollback. *)

create_session_call(t, p, k, e) ==
    /\ CanStart(t)
    /\ Start(t, "cs_insert",
             [NoReq EXCEPT !.op = "create_session", !.patient_id = p,
                           !.session_token = k, !.expires_at = e])
    /\ UNCHANGED <<db, committed, now, nfaults, nuuid, httpVars>>

create_session_insert(t) ==
    /\ pc[t] = "cs_insert"
    /\ nuuid' = nuuid + 1
    /\ \/ /\ db' = InsertSession(db, req[t], nuuid + 1)
          /\ Goto(t, "cs_commit")
          /\ UNCHANGED req
          /\ NoFault
       \/ /\ EnvFault
          /\ Return(t, "raised")
          /\ UNCHANGED db
    /\ UNCHANGED <<committed, now, nops, httpVars>>

create_session_commit(t) ==
    /\ pc[t] = "cs_commit"
    /\ committed' = db
    /\ Goto(t, "audit_insert")
    /\ UNCHANGED <<db, now, req, nops, nfaults, nuuid, httpVars>>

----------------------------------------------------------------------------
(* verify_session: one SELECT on the shared connection. *)

verify_session(patient_id, session_token) ==
    IF SelectValidSession(db, patient_id, session_token) THEN "True" ELSE "False"

verify_session_call(t, p, k) ==
    /\ CanStart(t)
    /\ req' = [req EXCEPT ![t] =
                 [NoReq EXCEPT !.op = "verify_session", !.patient_id = p,
                               !.session_token = k, !.at = now,
                               !.ret = verify_session(p, k)]]
    /\ nops' = nops + 1
    /\ UNCHANGED <<db, committed, now, pc, nfaults, nuuid, httpVars>>

----------------------------------------------------------------------------
(* get_patient_history (sqlite_manager.py): the patient's conversations, decrypted. *)

HistoryEntry(r) ==
    [conversation_id |-> r.conversation_id,
     user_message |-> decrypt_data(r.encrypted_user_message),
     ai_response |-> decrypt_data(r.encrypted_ai_response),
     urgency_score |-> r.urgency_score,
     escalation_triggered |-> r.escalation_triggered,
     timestamp |-> r.timestamp]

get_patient_history(d, patient_id) ==
    {HistoryEntry(r) : r \in {x \in Rows(d.conversations) : x.patient_id = patient_id}}

\* SELECT * FROM patients WHERE patient_id = ? AND active = 1, then the decryption
\* of the medical history when the column is not NULL.
get_patient(d, patient_id) ==
    IF \E r \in Rows(d.patients) : r.patient_id = patient_id /\ r.active
    THEN LET row == CHOOSE r \in Rows(d.patients) : r.patient_id = patient_id /\ r.active
         IN IF row.encrypted_medical_history = NULL
            THEN [found |-> TRUE, patient_id |-> patient_id]
            ELSE [found |-> TRUE, patient_id |-> patient_id,
                  medical_history |-> decrypt_data(row.encrypted_medical_history)]
    ELSE [found |-> FALSE]

\* A read of the history that removes what it returned.
get_patient_history_call_consuming(t, p) ==
    /\ CanStart(t)
    /\ req' = [req EXCEPT ![t] =
                 [NoReq EXCEPT !.op = "get_patient_history", !.patient_id = p]
                 @@ [history |-> get_patient_history(db, p)]]
    /\ nops' = nops + 1
    /\ db' = [db EXCEPT !.conversations = SelectSeq(@, LAMBDA r : r.patient_id # p)]
    /\ committed' = db'
    /\ UNCHANGED <<now, pc, nfaults, nuuid, httpVars>>

\* get_patient_history: one SELECT on the shared connection and the decryption of
\* its rows.
get_patient_history_call(t, p) ==
    /\ CanStart(t)
    /\ req' = [req EXCEPT ![t] =
                 [NoReq EXCEPT !.op = "get_patient_history", !.patient_id = p]
                 @@ [history |-> get_patient_history(db, p)]]
    /\ nops' = nops + 1
    /\ UNCHANGED <<db, committed, now, pc, nfaults, nuuid, httpVars>>

\* get_patient: one SELECT on the shared connection and the decryption of the row.
get_patient_call(t, p) ==
    /\ CanStart(t)
    /\ req' = [req EXCEPT ![t] =
                 [NoReq EXCEPT !.op = "get_patient", !.patient_id = p]
                 @@ [patient |-> get_patient(db, p)]]
    /\ nops' = nops + 1
    /\ UNCHANGED <<db, committed, now, pc, nfaults, nuuid, httpVars>>

----------------------------------------------------------------------------
(* cleanup_expired_sessions: UPDATE, commit; a failure is logged and swallowed. *)

cleanup_expired_sessions_call(t) ==
    /\ CanStart(t)
    /\ Start(t, "cl_update", [NoReq EXCEPT !.op = "cleanup_expired_sessions"])
    /\ UNCHANGED <<db, committed, now, nfaults, nuuid, httpVars>>

cleanup_expired_sessions_update(t) ==
    /\ pc[t] = "cl_update"
    /\ \/ /\ db' = UpdateExpiredSessions(db)
          /\ Goto(t, "cl_commit")
          /\ UNCHANGED req
          /\ NoFault
       \/ /\ EnvFault
          /\ Return(t, "None")
          /\ UNCHANGED db
    /\ UNCHANGED <<committed, now, nops, nuuid, httpVars>>

cleanup_expired_sessions_commit(t) ==
    /\ pc[t] = "cl_commit"
    /\ committed' = db
    /\ Return(t, "None")
    /\ UNCHANGED <<db, now, nops, nfaults, nuuid, httpVars>>

----------------------------------------------------------------------------
(* The clock. *)

Tick ==
    /\ now < MaxTime
    /\ now' = now + 1
    /\ UNCHANGED <<db, committed, pc, req, nops, nfaults, nuuid, httpVars>>

----------------------------------------------------------------------------
(* Spec: request threads share the one connection (app.py runs threaded=True,
   sqlite3.connect(check_same_thread=False)). *)

NoHttp ==
    /\ cookie = [patient_id |-> None, session_token |-> None]
    /\ made = {}
    /\ resp = [handler |-> "none", presented |-> [patient_id |-> None, session_token |-> None],
               status |-> 0, body |-> <<>>, stored |-> "not called"]
    /\ out = [fn |-> "none"]

Init ==
    /\ db = EmptyTables
    /\ committed = EmptyTables
    /\ now = 0
    /\ pc = [t \in Threads |-> "idle"]
    /\ req = [t \in Threads |-> NoReq]
    /\ nops = 0
    /\ nfaults = 0
    /\ nuuid = 0
    /\ NoHttp

Step(t) ==
    \/ \E p \in PatientIds, c \in ConversationIds, a \in DirectResponses :
          store_conversation_call(t, p, c, "I have a headache", a)
    \/ \E p \in PatientIds : log_audit_event_call(t, p, "escalation_outcome")
    \/ \E p \in PatientIds, h \in MedicalHistories : create_patient_call(t, p, h)
    \/ create_session_call(t, "p1", "tok-A", TicksPerSecond)
    \/ store_conversation_insert_conversation(t)
    \/ store_conversation_insert_triage(t)
    \/ store_conversation_commit(t)
    \/ store_conversation_except(t)
    \/ log_audit_event_insert(t)
    \/ log_audit_event_commit(t)
    \/ create_patient_insert(t)
    \/ create_patient_commit(t)
    \/ create_patient_except(t)
    \/ create_session_insert(t)
    \/ create_session_commit(t)

Next == \E t \in Threads : Step(t)

Spec == Init /\ [][Next]_vars

\* One call at a time: a thread takes a step only while every other thread is idle.
Alone(t) == \A u \in Threads \ {t} : pc[u] = "idle"

SeqNext ==
    \E t \in Threads :
        \/ Alone(t) /\ \E p \in PatientIds, c \in ConversationIds, a \in DirectResponses :
                            store_conversation_call(t, p, c, "I have a headache", a)
        \/ Alone(t) /\ \E p \in PatientIds : log_audit_event_call(t, p, "escalation_outcome")
        \/ Alone(t) /\ \E p \in PatientIds, h \in MedicalHistories : create_patient_call(t, p, h)
        \/ Alone(t) /\ \E p \in PatientIds, h \in MedicalHistories, d \in Demographics :
                            create_patient_with_demographics_call(t, p, h, d)
        \/ Alone(t) /\ create_session_call(t, "p1", "tok-A", TicksPerSecond)
        \/ Alone(t) /\ \E p \in PatientIds : get_patient_history_call(t, p)
        \/ Alone(t) /\ \E p \in PatientIds : get_patient_call(t, p)
        \/ Alone(t) /\ store_conversation_insert_conversation(t)
        \/ Alone(t) /\ store_conversation_insert_triage(t)
        \/ Alone(t) /\ store_conversation_commit(t)
        \/ Alone(t) /\ store_conversation_except(t)
        \/ Alone(t) /\ log_audit_event_insert(t)
        \/ Alone(t) /\ log_audit_event_commit(t)
        \/ Alone(t) /\ create_patient_insert(t)
        \/ Alone(t) /\ create_patient_commit(t)
        \/ Alone(t) /\ create_patient_except(t)
        \/ Alone(t) /\ create_session_insert(t)
        \/ Alone(t) /\ create_session_commit(t)

SeqSpec == Init /\ [][SeqNext]_vars

----------------------------------------------------------------------------
(* SessionSpec: sessions are created, verified and cleaned up while the clock runs
   and while a store_conversation call fails and rolls back. *)

SessionStep(t) ==
    \/ \E p \in PatientIds, k \in SessionTokens, e \in ExpiryTimes :
          create_session_call(t, p, k, e)
    \/ \E p \in PatientIds, k \in SessionTokens : verify_session_call(t, p, k)
    \/ cleanup_expired_sessions_call(t)
    \/ create_session_insert(t)
    \/ create_session_commit(t)
    \/ log_audit_event_insert(t)
    \/ log_audit_event_commit(t)
    \/ cleanup_expired_sessions_update(t)
    \/ cleanup_expired_sessions_commit(t)

SessionNext ==
    \/ \E t \in Threads : SessionStep(t)
    \/ Tick

SessionSpec == Init /\ [][SessionNext]_vars

----------------------------------------------------------------------------
(* Text: Python's str.lower() and the substring test `kw in text`. *)

\* The letters str.lower() changes (ASCII).
LowerOf ==
    [A |-> "a", B |-> "b", C |-> "c", D |-> "d", E |-> "e", F |-> "f", G |-> "g",
     H |-> "h", I |-> "i", J |-> "j", K |-> "k", L |-> "l", M |-> "m", N |-> "n",
     O |-> "o", P |-> "p", Q |-> "q", R |-> "r", S |-> "s", T |-> "t", U |-> "u",
     V |-> "v", W |-> "w", X |-> "x", Y |-> "y", Z |-> "z"]

LowerChar(c) == IF c \in DOMAIN LowerOf THEN LowerOf[c] ELSE c

RECURSIVE LowerFrom(_, _)
LowerFrom(text, i) ==
    IF i > Len(text) THEN "" ELSE LowerChar(SubSeq(text, i, i)) \o LowerFrom(text, i + 1)

lower(text) == LowerFrom(text, 1)

Contains(kw, text) ==
    \E i \in 1..(Len(text) - Len(kw) + 1) : SubSeq(text, i, i + Len(kw) - 1) = kw

AnyIn(kws, text) == \E k \in kws : Contains(k, text)

CountIn(kws, text) == Cardinality({i \in DOMAIN kws : Contains(kws[i], text)})

----------------------------------------------------------------------------
(* IntakeAgent and BaseAgent (agents/intake_agent.py, agents/base_agent.py). *)

symptom_keywords ==
    <<"pain", "hurt", "ache", "fever", "nausea", "vomit", "dizzy",
      "tired", "cough", "cold", "headache", "chest pain", "shortness of breath",
      "rash", "swelling", "bleeding", "trouble breathing">>

KeywordIn(k, text) == Contains(k, text)

\* One observation per lexicon keyword found in the lower-cased message, in lexicon order.
extract_symptoms(message) ==
    LET found == SelectSeq(symptom_keywords, LAMBDA k : KeywordIn(k, lower(message)))
    IN [i \in 1..Len(found) |-> [name |-> found[i], confidence |-> "0.7"]]

\* The high-urgency words of the intake without 'chest pain'.
high_urgency_keywords_without_chest_pain ==
    <<"severe", "intense", "excruciating", "unbearable",
      "can't breathe", "crushing", "radiating",
      "sudden", "worst ever", "emergency", "911", "help">>

high_urgency_keywords ==
    <<"severe", "intense", "excruciating", "unbearable",
      "can't breathe", "chest pain", "crushing", "radiating",
      "sudden", "worst ever", "emergency", "911", "help">>

medium_urgency_keywords ==
    <<"moderate", "concerning", "worsening", "spreading",
      "nausea", "vomiting", "fever", "difficulty">>

assess_urgency_indicators(text) ==
    LET high_urgency_count == CountIn(high_urgency_keywords, lower(text))
        medium_urgency_count == CountIn(medium_urgency_keywords, lower(text))
    IN [urgency_level |->
            IF high_urgency_count > 0 THEN "high"
            ELSE IF medium_urgency_count > 0 THEN "medium"
            ELSE "low",
        high_urgency_indicators |-> high_urgency_count,
        medium_urgency_indicators |-> medium_urgency_count]

Messages ==
    {"", "I have a mild headache", "I have severe chest pain and can't breathe"}

\* Messages around the thresholds of the scoring: a score of 6, a score of 8 without
\* a chest-pain symptom, and 'chest pain' in upper case.
ThresholdMessages == {"I am bleeding", "severe bleeding", "CHEST PAIN"}

ExtractedSymptoms == [m \in Messages \cup ThresholdMessages |-> extract_symptoms(m)]
UrgencyIndicators == [m \in Messages \cup ThresholdMessages |-> assess_urgency_indicators(m)]

\* The request's context: absent, a JSON object, or JSON of another type (a list).
\* `context.get(...)` raises AttributeError on a non-empty list.
ContextGetRaises(context) == context.kind = "list"

intake_patient_context(patient_id, message, context) ==
    [patient_id |-> patient_id,
     symptoms |-> ExtractedSymptoms[message],
     urgency_indicators |-> UrgencyIndicators[message],
     medical_history |-> IF context.kind = "dict" THEN DictGet(context, "medical_history", "{}") ELSE "{}",
     age |-> [kind |-> "absent"]]

\* process_message: `crash` says that the body of the try block raised; the except
\* branch answers without 'extracted_symptoms' and 'patient_context'.
intake_process_message(patient_id, message, context, generated, conversation_id, crash) ==
    IF crash \/ ContextGetRaises(context)
    THEN [response |-> "I'm sorry, I'm having technical difficulties. Can you please repeat your symptoms?",
          conversation_id |-> conversation_id,
          error |-> TRUE]
    ELSE [response |-> generated,
          conversation_id |-> conversation_id,
          extracted_symptoms |-> ExtractedSymptoms[message],
          patient_context |-> intake_patient_context(patient_id, message, context),
          urgency_level |-> UrgencyIndicators[message].urgency_level]

----------------------------------------------------------------------------
(* TriageAgent (agents/triage_agent.py). *)

\* A context's age: the key absent, None, a number, or a text such as "80".
AgeTruthy(age) == (age.kind = "int" /\ age.v # 0) \/ age.kind = "str"

\* `age > 65` raises TypeError for a text.
AgeCompareRaises(age) == age.kind = "str"

\* The high-urgency names of the scoring without 'chest pain'.
high_urgency_symptoms_without_chest_pain == {"shortness of breath", "severe pain", "bleeding"}

high_urgency_symptoms == {"chest pain", "shortness of breath", "severe pain", "bleeding"}
medium_urgency_symptoms == {"fever", "nausea", "headache", "dizzy"}

SymptomPoints(symptom) ==
    IF AnyIn(high_urgency_symptoms, lower(DictGet(symptom, "name", ""))) THEN 3
    ELSE IF AnyIn(medium_urgency_symptoms, lower(DictGet(symptom, "name", ""))) THEN 1
    ELSE 0

RECURSIVE SumPoints(_, _)
SumPoints(symptoms, i) ==
    IF i > Len(symptoms) THEN 0 ELSE SymptomPoints(symptoms[i]) + SumPoints(symptoms, i + 1)

\* A base score that starts higher for no symptom than for one.
calculate_base_urgency_high_when_empty(symptoms) ==
    IF Len(symptoms) = 0 THEN 7 ELSE 3 + SumPoints(symptoms, 1)

calculate_base_urgency(symptoms) ==
    IF Len(symptoms) = 0 THEN 2 ELSE 3 + SumPoints(symptoms, 1)

triage_high_risk_conditions == {"diabetes", "heart disease", "hypertension"}

AgeModifier(age) ==
    IF AgeTruthy(age)
    THEN IF age.v > 65 THEN 1 ELSE IF age.v < 2 THEN 2 ELSE 0
    ELSE 0

apply_context_modifiers(base_score, patient_context) ==
    base_score
    + AgeModifier(patient_context.age)
    + Cardinality({c \in triage_high_risk_conditions :
                      Contains(c, lower(patient_context.medical_history))})
    + (IF DictGet(patient_context.urgency_indicators, "urgency_level", None) = "high" THEN 2 ELSE 0)

get_urgency_level(score) ==
    IF score >= 8 THEN "critical"
    ELSE IF score >= 6 THEN "high"
    ELSE IF score >= 4 THEN "moderate"
    ELSE IF score >= 2 THEN "low"
    ELSE "minimal"

get_recommended_action(score) ==
    CASE get_urgency_level(score) = "critical" -> "Call 911 immediately or go to emergency room"
      [] get_urgency_level(score) = "high" -> "Seek immediate medical attention within 2 hours"
      [] get_urgency_level(score) = "moderate" -> "Contact healthcare provider within 24 hours"
      [] get_urgency_level(score) = "low" -> "Schedule appointment within 1-2 weeks"
      [] OTHER -> "Monitor symptoms and consider self-care measures"

\* The score returned as computed, without min(10, max(1, .)).
Unclamped(score) == score

Clamp(score) ==
    LET atLeastOne == IF score > 1 THEN score ELSE 1
    IN IF atLeastOne < 10 THEN atLeastOne ELSE 10

\* The try block raises when the age is compared as a text (_apply_context_modifiers)
\* or when `patient_context.get('age', 0) > 65` meets None or a text (_generate_reasoning).
TriageRaises(patient_context) ==
    \/ AgeTruthy(patient_context.age) /\ AgeCompareRaises(patient_context.age)
    \/ patient_context.age.kind \in {"null", "str"}

\* _generate_reasoning raises after _apply_context_modifiers returned and before
\* _log_interaction: no audit event is written on the error path.
assess_urgency(symptoms, patient_context, crash) ==
    IF crash \/ TriageRaises(patient_context)
    THEN [urgency_score |-> 5,
          urgency_level |-> "moderate",
          recommended_action |-> "Contact healthcare provider within 24 hours",
          error |-> TRUE]
    ELSE LET modified_score == apply_context_modifiers(calculate_base_urgency(symptoms), patient_context)
         IN [urgency_score |-> Clamp(modified_score),
             urgency_level |-> get_urgency_level(modified_score),
             recommended_action |-> get_recommended_action(modified_score),
             error |-> FALSE]

----------------------------------------------------------------------------
(* KnowledgeAgent (agents/knowledge_agent.py). *)

\* What the knowledge store answers to the three searches of one retrieval: the
\* number of documents of each collection, or -1 when the search raises. A search
\* that raises is answered by its own except branch with no document.
\* A search whose failure counts as one document found.
DocumentsWithFailureAsHit(n) == IF n < 0 THEN 1 ELSE n

Documents(n) == IF n < 0 THEN 0 ELSE n

AtMost(n, limit) == IF n < limit THEN n ELSE limit

calculate_confidence(symptom_count, condition_count) ==
    IF symptom_count > 0 /\ condition_count > 0 THEN "0.8"
    ELSE IF symptom_count > 0 \/ condition_count > 0 THEN "0.6"
    ELSE "0.3"

\* Lists of documents are kept by their lengths.
retrieve_medical_knowledge(symptoms, search, crash) ==
    IF crash
    THEN [query |-> "error", conditions |-> 0, treatments |-> 0, warning_signs |-> 0,
          error |-> TRUE]
    ELSE [query |-> IF Len(symptoms) = 0 THEN "general medical information" ELSE "symptom names",
          conditions |-> AtMost(Documents(search.conditions), 3),
          treatments |-> AtMost(Documents(search.treatments), 2),
          warning_signs |-> AtMost(Documents(search.symptoms), 5),
          confidence_score |->
              calculate_confidence(Documents(search.symptoms), Documents(search.conditions))]

----------------------------------------------------------------------------
(* EscalationAgent (agents/escalation_agent.py). *)

\* An urgency check whose 'urgent' threshold is 7.
check_urgency_escalation_from_seven(urgency_score) ==
    IF urgency_score >= 8 THEN [required |-> TRUE, priority |-> "immediate"]
    ELSE IF urgency_score >= 7 THEN [required |-> TRUE, priority |-> "urgent"]
    ELSE [required |-> FALSE, priority |-> "routine"]

check_urgency_escalation(urgency_score) ==
    IF urgency_score >= 8 THEN [required |-> TRUE, priority |-> "immediate"]
    ELSE IF urgency_score >= 6 THEN [required |-> TRUE, priority |-> "urgent"]
    ELSE [required |-> FALSE, priority |-> "routine"]

high_priority_symptoms ==
    {"chest pain", "shortness of breath", "severe pain",
     "difficulty breathing", "stroke symptoms", "heart attack"}

IsEscalationSymptom(symptom) ==
    AnyIn(high_priority_symptoms, lower(DictGet(symptom, "name", "")))

check_symptom_escalation(symptoms) ==
    LET escalation_symptoms == SelectSeq(symptoms, IsEscalationSymptom)
    IN [required |-> Len(escalation_symptoms) > 0,
        symptoms |-> [i \in 1..Len(escalation_symptoms) |-> lower(escalation_symptoms[i].name)]]

escalation_high_risk_conditions == {"heart disease", "diabetes", "cancer", "immunocompromised"}

AgeFactor(age) == AgeTruthy(age) /\ (age.v < 2 \/ age.v > 75)

check_context_escalation(patient_context) ==
    LET escalation_factors ==
            (IF AgeFactor(patient_context.age) THEN {"Age factor"} ELSE {})
            \cup {c \in escalation_high_risk_conditions :
                     Contains(c, lower(patient_context.medical_history))}
            \cup (IF Len(patient_context.symptoms) >= 5 THEN {"Multiple symptoms"} ELSE {})
    IN [required |-> escalation_factors # {}, factors |-> escalation_factors]

\* `'chest pain' in str(symptoms).lower()`: the text of the symptom check holds
\* 'chest pain' exactly when one of its escalation symptoms does.
ChestPainInText(symptoms) ==
    \E i \in DOMAIN symptoms.symptoms : Contains("chest pain", symptoms.symptoms[i])

\* The level resolved from the urgency priority and the symptom check alone,
\* without the chest-pain test and without the context check.
determine_escalation_level_by_priority(urgency, symptoms, context) ==
    IF urgency.priority = "immediate" THEN "emergency"
    ELSE IF urgency.priority = "urgent" \/ symptoms.required THEN "urgent"
    ELSE "routine"

\* A level that leaves the context check out.
determine_escalation_level_without_context(urgency, symptoms, context) ==
    IF urgency.priority = "immediate" \/ ChestPainInText(symptoms) THEN "emergency"
    ELSE IF urgency.priority = "urgent" \/ symptoms.required THEN "urgent"
    ELSE "routine"

determine_escalation_level(urgency, symptoms, context) ==
    IF urgency.priority = "immediate" \/ ChestPainInText(symptoms) THEN "emergency"
    ELSE IF urgency.priority = "urgent" \/ symptoms.required THEN "urgent"
    ELSE IF context.required THEN "priority"
    ELSE "routine"

\* `age < 2` raises TypeError for a text.
EscalationRaises(patient_context) ==
    AgeTruthy(patient_context.age) /\ AgeCompareRaises(patient_context.age)

\* An except branch that answers with a non-escalating default.
check_escalation_needed_routine_on_error(urgency_score, symptoms, patient_context, crash) ==
    IF crash \/ EscalationRaises(patient_context)
    THEN [required |-> FALSE, level |-> "routine", error |-> TRUE]
    ELSE LET urgency_escalation == check_urgency_escalation(urgency_score)
             symptom_escalation == check_symptom_escalation(symptoms)
             context_escalation == check_context_escalation(patient_context)
         IN [required |-> \/ urgency_escalation.required
                          \/ symptom_escalation.required
                          \/ context_escalation.required,
             level |-> determine_escalation_level(urgency_escalation, symptom_escalation,
                                                  context_escalation),
             reasons |-> [urgency |-> urgency_escalation,
                          symptoms |-> symptom_escalation,
                          context |-> context_escalation]]

check_escalation_needed(urgency_score, symptoms, patient_context, crash) ==
    IF crash \/ EscalationRaises(patient_context)
    THEN [required |-> TRUE, level |-> "urgent", error |-> TRUE]
    ELSE LET urgency_escalation == check_urgency_escalation(urgency_score)
             symptom_escalation == check_symptom_escalation(symptoms)
             context_escalation == check_context_escalation(patient_context)
         IN [required |-> \/ urgency_escalation.required
                          \/ symptom_escalation.required
                          \/ context_escalation.required,
             level |-> determine_escalation_level(urgency_escalation, symptom_escalation,
                                                  context_escalation),
             reasons |-> [urgency |-> urgency_escalation,
                          symptoms |-> symptom_escalation,
                          context |-> context_escalation]]

----------------------------------------------------------------------------
(* store_conversation as one call on a connection nobody else uses. *)

StoreFaults == {"store_conversation", "store_triage", "store_audit"}

store_conversation(d, a, fault) ==
    IF fault = "store_conversation" \/ ConversationIdTaken(d, a.conversation_id)
    THEN [tables |-> d, ret |-> "False"]
    ELSE IF fault = "store_triage" \/ TriageNotNullViolated(a)
    THEN [tables |-> d, ret |-> "False"]
    ELSE LET stored == InsertTriage(InsertConversation(d, a, CURRENT_TIMESTAMP), a, CURRENT_TIMESTAMP)
         IN [tables |-> IF fault = "store_audit" THEN stored
                        ELSE InsertAudit(stored, a.patient_id, "conversation_stored", a.conversation_id),
             ret |-> "True"]

----------------------------------------------------------------------------
(* The HTTP handlers of app.py, one request at a time. *)

NoCookie == [patient_id |-> None, session_token |-> None]

\* str(uuid.uuid4()): 36 characters, a fresh value at each call.
Token(n) == "00000000-0000-4000-8000-00000000000" \o ToString(n)

\* f"intake_{uuid.uuid4().hex[:8]}_{int(datetime.now().timestamp())}"
create_conversation_id(n) == "intake_" \o ToString(n)

\* A session cookie signed with the default secret key of app.py, made by the client.
CraftedCookies == {[patient_id |-> "p2", session_token |-> "guess"]}

\* The 'context' of the request body: absent, an object, or a list.
RequestContexts ==
    {[kind |-> "absent"],
     [kind |-> "dict", age |-> 80],
     [kind |-> "dict", medical_history |-> "diabetes"],
     [kind |-> "list"]}

\* At most one thing goes wrong while a request is served: the language model
\* raises, the knowledge store raises, a stage raises, or a statement of
\* store_conversation fails.
Failures ==
    {"none", "generate", "search", "intake", "triage", "knowledge", "escalation"}
    \cup StoreFaults

\* _generate_response: the text of the model, or the fallback text when it raises.
generate_response(failure) ==
    IF failure = "generate"
    THEN "I apologize, but I'm experiencing technical difficulties."
    ELSE "I'm sorry to hear that. How long has it lasted?"

\* The knowledge store's answers: documents, or every search raising.
SearchAnswer(failure) ==
    IF failure = "search"
    THEN [symptoms |-> -1, conditions |-> -1, treatments |-> -1]
    ELSE [symptoms |-> 2, conditions |-> 1, treatments |-> 1]

\* The answer to a request, with the session the request carried and what its
\* call of store_conversation returned.
Reply(handler, presented, status, body, stored) ==
    [handler |-> handler, presented |-> presented, status |-> status, body |-> body,
     stored |-> stored]

verify_patient_access(patient_id, session_token) == Len(session_token) > 10

start_patient_session(p) ==
    /\ nops < MaxRequests
    /\ nops' = nops + 1
    /\ IF p = ""
       THEN /\ resp' = Reply("start_session", cookie, 400, [error |-> "Patient ID required"], "not called")
            /\ UNCHANGED <<cookie, nuuid>>
       ELSE /\ cookie' = [patient_id |-> p, session_token |-> Token(nuuid + 1)]
            /\ nuuid' = nuuid + 1
            /\ resp' = Reply("start_session", cookie, 200, [patient_id |-> p], "not called")
    /\ UNCHANGED <<db, committed, now, pc, req, nfaults, made, out>>

MergedResponse(intake, triage, knowledge, escalation) ==
    [agent_response |-> intake.response,
     urgency_assessment |-> [score |-> triage.urgency_score,
                             level |-> triage.urgency_level,
                             recommended_action |-> triage.recommended_action],
     medical_knowledge |-> [relevant_conditions |-> knowledge.conditions,
                            treatment_guidelines |-> knowledge.treatments,
                            warning_signs |-> knowledge.warning_signs],
     escalation |-> escalation,
     conversation_id |-> intake.conversation_id]

\* Steps 2 to 4 and the storing of the exchange, for an intake answer that has its keys.
RunPipeline(patient_id, message, intake, failure) ==
    LET triage == assess_urgency(intake.extracted_symptoms, intake.patient_context,
                                 failure = "triage")
        logged == IF triage.error THEN db
                  ELSE InsertAudit(db, patient_id, "triage_interaction", "urgency_assessment")
        knowledge == retrieve_medical_knowledge(intake.extracted_symptoms,
                                                SearchAnswer(failure), failure = "knowledge")
        escalation == check_escalation_needed(triage.urgency_score, intake.extracted_symptoms,
                                              intake.patient_context, failure = "escalation")
        response == MergedResponse(intake, triage, knowledge, escalation)
        stored == store_conversation(logged,
                                     [patient_id |-> patient_id,
                                      conversation_id |-> response.conversation_id,
                                      user_message |-> message,
                                      ai_response |-> response,
                                      urgency_score |-> triage.urgency_score],
                                     failure)
    IN [tables |-> stored.tables, response |-> response, stored |-> stored.ret,
        decision |-> [conversation_id |-> response.conversation_id,
                      required |-> escalation.required,
                      urgency_score |-> triage.urgency_score]]

process_patient_message(message, context, failure) ==
    /\ nops < MaxRequests
    /\ nops' = nops + 1
    /\ IF cookie.patient_id = None
       THEN /\ resp' = Reply("message", cookie, 401, [error |-> "No active session"], "not called")
            /\ UNCHANGED <<db, committed, nuuid, made>>
       ELSE IF message = ""
       THEN /\ resp' = Reply("message", cookie, 400, [error |-> "Message is required"], "not called")
            /\ UNCHANGED <<db, committed, nuuid, made>>
       ELSE LET intake == intake_process_message(cookie.patient_id, message, context,
                                                 generate_response(failure),
                                                 create_conversation_id(nuuid + 1),
                                                 failure = "intake")
            IN /\ nuuid' = nuuid + 1
               /\ IF "extracted_symptoms" \notin DOMAIN intake
                  THEN /\ resp' = Reply("message", cookie, 500, [error |-> "Failed to process message"],
                                        "not called")
                       /\ UNCHANGED <<db, committed, made>>
                  ELSE LET run == RunPipeline(cookie.patient_id, message, intake, failure)
                       IN /\ db' = run.tables
                          /\ committed' = run.tables
                          /\ made' = made \cup {run.decision}
                          /\ resp' = Reply("message", cookie, 200, run.response, run.stored)
    /\ UNCHANGED <<now, pc, req, nfaults, cookie, out>>

get_patient_history_request(presented) ==
    /\ nops < MaxRequests
    /\ nops' = nops + 1
    /\ resp' =
         IF presented.patient_id = None
         THEN Reply("history", presented, 401, [error |-> "No active session"], "not called")
         ELSE IF ~verify_patient_access(presented.patient_id, presented.session_token)
         THEN Reply("history", presented, 403, [error |-> "Unauthorized access"], "not called")
         ELSE Reply("history", presented, 200,
                    [patient_id |-> presented.patient_id,
                     conversations |-> get_patient_history(db, presented.patient_id)],
                    "not called")
    /\ UNCHANGED <<db, committed, now, pc, req, nfaults, nuuid, cookie, made, out>>

PipeNext ==
    \/ \E p \in PatientIds \cup {""} : start_patient_session(p)
    \/ \E m \in Messages, c \in RequestContexts, f \in Failures :
          process_patient_message(m, c, f)
    \/ \E presented \in {cookie} \cup CraftedCookies : get_patient_history_request(presented)

PipeSpec == Init /\ [][PipeNext]_vars

\* Message requests of one patient on the threshold messages.
ThresholdFailures == {"none", "triage", "escalation"}

ThresholdNext ==
    \/ start_patient_session("p1")
    \/ \E m \in ThresholdMessages, c \in RequestContexts, f \in ThresholdFailures :
          process_patient_message(m, c, f)

ThresholdSpec == Init /\ [][ThresholdNext]_vars

----------------------------------------------------------------------------
(* Direct calls of the agents' functions on drawn arguments. *)

MaxSymptoms == 3       \* longest list of symptoms handed to an agent

SymptomNames == {"chest pain", "Severe Pain", "fever", "cough"}

Symptoms(name) == [name |-> name, confidence |-> "0.7"]

RECURSIVE SymptomLists(_)
SymptomLists(n) ==
    IF n = 0 THEN {<<>>}
    ELSE SymptomLists(n - 1)
         \cup {Append(l, Symptoms(x)) : l \in {y \in SymptomLists(n - 1) : Len(y) = n - 1},
                                        x \in SymptomNames}

Ages ==
    {[kind |-> "absent"], [kind |-> "null"], [kind |-> "str", v |-> "80"]}
    \cup {[kind |-> "int", v |-> n] : n \in {0, 1, 30, 66, 80}}

Indicators == {<<>>, [urgency_level |-> "high"], [urgency_level |-> "low"]}

PatientContexts ==
    {[age |-> a, medical_history |-> h, urgency_indicators |-> u, symptoms |-> <<>>] :
        a \in Ages, h \in {"{}", "Diabetes and hypertension"}, u \in Indicators}

FnInit ==
    /\ db = EmptyTables
    /\ committed = EmptyTables
    /\ now = 0
    /\ pc = [t \in Threads |-> "idle"]
    /\ req = [t \in Threads |-> NoReq]
    /\ nops = 0
    /\ nfaults = 0
    /\ nuuid = 0
    /\ cookie = NoCookie
    /\ made = {}
    /\ resp = Reply("none", NoCookie, 0, <<>>, "not called")
    /\ out \in {[fn |-> "none", patient_id |-> "p1", symptoms |-> l, patient_context |-> c] :
                   l \in SymptomLists(MaxSymptoms), c \in PatientContexts}

\* triage_agent.assess_urgency(patient_id, symptoms, patient_context), its audit
\* event included.
assess_urgency_call ==
    /\ out.fn = "none"
    /\ LET result == assess_urgency(out.symptoms, out.patient_context, FALSE)
       IN /\ out' = [out EXCEPT !.fn = "assess_urgency"] @@ [result |-> result]
          /\ db' = IF result.error THEN db
                   ELSE InsertAudit(db, out.patient_id, "triage_interaction", "urgency_assessment")
          /\ committed' = db'
    /\ UNCHANGED <<now, pc, req, nops, nfaults, nuuid, cookie, made, resp>>

\* Scores around the thresholds of the urgency check.
Scores == {5, 6, 7, 8}

FiveSymptoms == [i \in 1..5 |-> Symptoms("cough")]

\* escalation_agent.check_escalation_needed(urgency_score, symptoms, patient_context),
\* on the drawn symptoms and context, the context's own list of symptoms being
\* empty or five long; `crash` lets a sub-check raise.
check_escalation_needed_call(urgency_score, context_symptoms, crash) ==
    /\ out.fn = "none"
    /\ LET patient_context == [out.patient_context EXCEPT !.symptoms = context_symptoms]
           result == check_escalation_needed(urgency_score, out.symptoms, patient_context, crash)
       IN out' = [out EXCEPT !.fn = "check_escalation_needed",
                             !.patient_context = patient_context]
                 @@ [urgency_score |-> urgency_score, crash |-> crash, result |-> result]
    /\ UNCHANGED <<db, committed, now, pc, req, nops, nfaults, nuuid, cookie, made, resp>>

\* Base scores of an empty symptom list and of one high-urgency symptom.
BaseScores == {2, 6}

Histories == {"{}", "Diabetes and hypertension", "Cancer, immunocompromised, heart disease"}

\* triage_agent._apply_context_modifiers(base_score, patient_context): the call
\* raises TypeError when a text age is compared with 65.
apply_context_modifiers_call(base_score, medical_history) ==
    /\ out.fn = "none"
    /\ LET patient_context == [out.patient_context EXCEPT !.medical_history = medical_history]
           result == IF AgeTruthy(patient_context.age) /\ AgeCompareRaises(patient_context.age)
                     THEN [raised |-> TRUE]
                     ELSE [raised |-> FALSE,
                           modified_score |-> apply_context_modifiers(base_score, patient_context)]
       IN out' = [out EXCEPT !.fn = "apply_context_modifiers", !.patient_context = patient_context]
                 @@ [base_score |-> base_score, result |-> result]
    /\ UNCHANGED <<db, committed, now, pc, req, nops, nfaults, nuuid, cookie, made, resp>>

FnNext ==
    \/ assess_urgency_call
    \/ \E s \in Scores, l \in {<<>>, FiveSymptoms}, c \in BOOLEAN :
          check_escalation_needed_call(s, l, c)
    \/ \E b \in BaseScores, h \in Histories : apply_context_modifiers_call(b, h)

FnSpec == FnInit /\ [][FnNext]_vars

----------------------------------------------------------------------------
(* Direct calls of the knowledge retrieval: each of the three searches of the  *)
(* knowledge store returns documents or raises on its own.                     *)

SearchAnswers ==
    [symptoms : {-1, 0, 2}, conditions : {-1, 0, 1}, treatments : {-1, 0, 1}]

\* knowledge_agent.retrieve_medical_knowledge(symptoms, patient_context).
retrieve_medical_knowledge_call(symptoms, search, crash) ==
    /\ out.fn = "none"
    /\ out' = [fn |-> "retrieve_medical_knowledge", symptoms |-> symptoms,
               search |-> search, crash |-> crash,
               result |-> retrieve_medical_knowledge(symptoms, search, crash)]
    /\ UNCHANGED <<db, committed, now, pc, req, nops, nfaults, nuuid, cookie, made, resp>>

KnowNext ==
    \E l \in SymptomLists(MaxSymptoms), s \in SearchAnswers, c \in BOOLEAN :
        retrieve_medical_knowledge_call(l, s, c)

KnowSpec == Init /\ [][KnowNext]_vars

----------------------------------------------------------------------------
(* Properties of the store. *)

Idle == \A t \in Threads : pc[t] = "idle"

HasConversation(d, cid) == \E r \in Rows(d.conversations) : r.conversation_id = cid

HasTriage(d, cid) == \E r \in Rows(d.triage_history) : r.conversation_id = cid

\* C1: under any interleaving of requests on the shared connection, the committed
\* tables never hold a Conversation row without its Triage Record row, nor a
\* Triage Record row without its Conversation row.
C1_PairNeverSplit ==
    /\ \A r \in Rows(committed.conversations) : HasTriage(committed, r.conversation_id)
    /\ \A r \in Rows(committed.triage_history) : HasConversation(committed, r.conversation_id)

\* C2: a store_conversation call, run alone, that fails at the triage insert (after
\* its conversation insert succeeded) returns False, and afterwards no conversation
\* row and no triage row of its conversation_id is visible and the tables are what
\* they were when the call began.
C2_FailedStoreLeavesNothing ==
    \A t \in Threads :
        (pc[t] = "idle" /\ req[t].op = "store_conversation" /\ req[t].failed_at = "triage") =>
            /\ req[t].ret = "False"
            /\ ~HasConversation(db, req[t].conversation_id)
            /\ ~HasTriage(db, req[t].conversation_id)
            /\ ~HasConversation(committed, req[t].conversation_id)
            /\ ~HasTriage(committed, req[t].conversation_id)
            /\ db = req[t].snap
            /\ committed = req[t].snap

\* Witness of C2: a call failed at its triage insert and returned while an earlier
\* conversation was stored.
C2_Witness ==
    \E t \in Threads :
        /\ pc[t] = "idle"
        /\ req[t].op = "store_conversation"
        /\ req[t].failed_at = "triage"
        /\ req[t].ret = "False"
        /\ Len(committed.conversations) > 0

ConversationAudited(d, r) ==
    \E a \in Rows(d.audit_log) :
        /\ a.patient_id = r.patient_id
        /\ a.action = "conversation_stored"
        /\ a.details = r.conversation_id

\* C5: once no call is in progress, every stored Conversation row has an Audit
\* Event row of the same patient recording that write (conversation, triage row
\* and audit event are all-or-nothing, also when the audit insert fails).
C5_ConversationAudited ==
    Idle => \A r \in Rows(committed.conversations) : ConversationAudited(committed, r)

\* C6: verify_session returns True only if a session row of that patient and token
\* exists whose expires_at is strictly later than the time of the call.
C6_VerifyOnlyUnexpired ==
    \A t \in Threads :
        (req[t].op = "verify_session" /\ req[t].ret = "True") =>
            \E r \in Rows(db.sessions) :
                /\ r.patient_id = req[t].patient_id
                /\ r.session_token = req[t].session_token
                /\ r.expires_at > req[t].at

----------------------------------------------------------------------------
(* Properties of the HTTP handlers. *)

MessageReply == resp.handler = "message"

HistoryReply == resp.handler = "history"

\* C3: when store_conversation did not store the conversation, the message
\* request is not answered with a successful merged result.
C3_PersistenceFailureSurfaced ==
    (MessageReply /\ resp.stored = "False") => resp.status # 200

MergedKeys == {"urgency_assessment", "medical_knowledge", "escalation"}

\* C4: every accepted message (a session and a non-empty message) is answered with
\* a merged result holding urgency_assessment, medical_knowledge and escalation,
\* whichever stage failed.
C4_StageFailureNeverFailsRequest ==
    (MessageReply /\ resp.status \notin {400, 401}) =>
        /\ resp.status = 200
        /\ MergedKeys \subseteq DOMAIN resp.body

\* C7: the history request answers with the conversations only if the session it
\* carries is a stored session of that patient, active and unexpired.
C7_HistoryOnlyWithStoredSession ==
    (HistoryReply /\ resp.status = 200) =>
        SelectValidSession(committed, resp.presented.patient_id, resp.presented.session_token)

RejectedAccess(r) == r.handler = "history" /\ r.status \in {401, 403}

\* C8: a request rejected for its session appends an Audit Event: no rejected
\* access leaves the audit log unchanged.
C8_RejectionAudited ==
    [][(nops' = nops + 1 /\ RejectedAccess(resp'))
          => Len(committed'.audit_log) > Len(committed.audit_log)]_vars

----------------------------------------------------------------------------
(* Properties of the agents' functions. *)

\* C9: the urgency_score assess_urgency returns is an integer from 1 to 10, for
\* every list of symptoms and every context, the error path included.
C9_ScoreInRange ==
    out.fn = "assess_urgency" => out.result.urgency_score \in 1..10

\* Witness of C9: a call whose computed score exceeds 10 has returned.
C9_Witness ==
    /\ out.fn = "assess_urgency"
    /\ ~out.result.error
    /\ apply_context_modifiers(calculate_base_urgency(out.symptoms), out.patient_context) > 10

Decided(cid, required, score) ==
    \E d \in made :
        /\ d.conversation_id = cid
        /\ d.required = required
        /\ d.urgency_score = score

\* C10: every stored Conversation row and every stored Triage Record row carries
\* the `required` of the escalation decision and the urgency score computed for
\* its message, and the two rows of a conversation agree on both.
C10_RowsMatchDecision ==
    /\ \A r \in Rows(committed.conversations) :
          Decided(r.conversation_id, r.escalation_triggered, r.urgency_score)
    /\ \A r \in Rows(committed.triage_history) :
          Decided(r.conversation_id, r.escalation_triggered, r.urgency_score)
    /\ \A r \in Rows(committed.conversations), x \in Rows(committed.triage_history) :
          r.conversation_id = x.conversation_id =>
              /\ r.escalation_triggered = x.escalation_triggered
              /\ r.urgency_score = x.urgency_score

\* Witness of C10: one conversation stored with an escalation and one without.
C10_Witness ==
    \E r, x \in Rows(committed.conversations) :
        /\ r.escalation_triggered
        /\ ~x.escalation_triggered
        /\ HasTriage(committed, r.conversation_id)
        /\ HasTriage(committed, x.conversation_id)

EscalationReturned == out.fn = "check_escalation_needed"

EscalationFailed == EscalationReturned /\ DictGet(out.result, "error", FALSE)

ChestPainFired == \E i \in DOMAIN out.symptoms : Contains("chest pain", lower(out.symptoms[i].name))

\* C11: when no sub-check raises, check_escalation_needed returns required = urgency
\* check OR symptom check OR context check, and the first matching level:
\* 'emergency' if the urgency priority is immediate or a chest-pain symptom fired,
\* else 'urgent' if the priority is urgent or the symptom check fired, else
\* 'priority' if the context check fired, else 'routine'.
C11_RequiredAndLevel ==
    (EscalationReturned /\ ~EscalationFailed) =>
        LET urgency == out.result.reasons.urgency
            symptoms == out.result.reasons.symptoms
            context == out.result.reasons.context
        IN /\ out.result.required = (urgency.required \/ symptoms.required \/ context.required)
           /\ out.result.level =
                 IF urgency.priority = "immediate" \/ ChestPainFired THEN "emergency"
                 ELSE IF urgency.priority = "urgent" \/ symptoms.required THEN "urgent"
                 ELSE IF context.required THEN "priority"
                 ELSE "routine"

\* Witness of C11: a chest-pain symptom alone raised a routine priority to 'emergency'.
C11_Witness ==
    /\ EscalationReturned
    /\ ~EscalationFailed
    /\ out.result.reasons.urgency.priority = "routine"
    /\ out.result.level = "emergency"

\* Observations whose name matches a high-urgency name of the scoring.
HighUrgencyObservations ==
    {Symptoms(n) : n \in {"chest pain", "Shortness of breath", "severe pain", "bleeding"}}

\* C15: adding a high-urgency observation to the symptoms never lowers the score
\* assess_urgency returns under the same context, the empty list included.
C15_HighUrgencyMonotone ==
    out.fn = "assess_urgency" =>
        \A h \in HighUrgencyObservations :
            assess_urgency(Append(out.symptoms, h), out.patient_context, FALSE).urgency_score
                >= out.result.urgency_score

\* Witness of C15: a call on the empty list returned, and the score with a
\* high-urgency observation added is strictly greater.
C15_Witness ==
    /\ out.fn = "assess_urgency"
    /\ out.symptoms = <<>>
    /\ ~out.result.error
    /\ \E h \in HighUrgencyObservations :
          assess_urgency(<<h>>, out.patient_context, FALSE).urgency_score
              > out.result.urgency_score

----------------------------------------------------------------------------
(* Properties of the pipeline on given messages. *)

MildMessage == "I have a mild headache"

AgeContext == [kind |-> "dict", age |-> 80]

InSession == cookie.patient_id # None

\* C12: the pipeline applied to a message with one mild symptom and the request
\* context age=80 answers an escalation with required=true and level 'priority',
\* the urgency check and the symptom check not being required.
C12_AgeContextEscalates ==
    [][(InSession /\ process_patient_message(MildMessage, AgeContext, "none")) =>
          /\ resp'.status = 200
          /\ resp'.body.escalation.required
          /\ resp'.body.escalation.level = "priority"
          /\ ~resp'.body.escalation.reasons.urgency.required
          /\ ~resp'.body.escalation.reasons.symptoms.required]_vars

ChestPainMessage == "I have severe chest pain and can't breathe"

NoContext == [kind |-> "absent"]

HasSymptom(symptoms, name) == \E i \in DOMAIN symptoms : symptoms[i].name = name

\* C13: for "I have severe chest pain and can't breathe" with no extra context the
\* extracted symptoms include 'chest pain', the urgency signal is 'high', the
\* score is at least 8 with level 'critical', and the escalation decision is
\* required=true with level 'emergency'.
C13_ChestPainExample ==
    [][(InSession /\ process_patient_message(ChestPainMessage, NoContext, "none")) =>
          /\ HasSymptom(extract_symptoms(ChestPainMessage), "chest pain")
          /\ assess_urgency_indicators(ChestPainMessage).urgency_level = "high"
          /\ resp'.status = 200
          /\ resp'.body.urgency_assessment.score >= 8
          /\ resp'.body.urgency_assessment.level = "critical"
          /\ resp'.body.escalation.required
          /\ resp'.body.escalation.level = "emergency"]_vars

\* Witness of C13: the exchange on that message is stored and answered.
C13_Witness ==
    /\ MessageReply
    /\ resp.status = 200
    /\ \E r \in Rows(committed.conversations) :
          /\ r.conversation_id = resp.body.conversation_id
          /\ decrypt_data(r.encrypted_user_message) = ChestPainMessage
          /\ decrypt_data(r.encrypted_ai_response).agent_response = generate_response("none")

EmptyMessage == ""

\* C14: for an empty message the system answers symptoms=[], score=2, level 'low'
\* and escalation required=false (with knowledge confidence 0.3), whatever the
\* search service returns.
C14_EmptyMessageExample ==
    [][(InSession /\ \E f \in {"none", "search"} :
                        process_patient_message(EmptyMessage, NoContext, f)) =>
          /\ resp'.status = 200
          /\ resp'.body.urgency_assessment.score = 2
          /\ resp'.body.urgency_assessment.level = "low"
          /\ ~resp'.body.escalation.required]_vars

----------------------------------------------------------------------------
(* Properties of the store's reads                                         *)

HistoryReturned(t) == pc[t] = "idle" /\ req[t].op = "get_patient_history"

PatientReturned(t) == pc[t] = "idle" /\ req[t].op = "get_patient"

C17_ReadsAudited ==
    [][\A t \in Threads, p \in PatientIds :
          /\ (get_patient_history_call(t, p) /\ req'[t].history # {}) =>
                 /\ Len(db'.audit_log) > Len(db.audit_log)
                 /\ db'.audit_log[Len(db'.audit_log)].patient_id = p
          /\ (get_patient_call(t, p) /\ req'[t].patient.found) =>
                 /\ Len(db'.audit_log) > Len(db.audit_log)
                 /\ db'.audit_log[Len(db'.audit_log)].patient_id = p]_vars

----------------------------------------------------------------------------
(* Properties of the stored rows                                           *)

OnePerConversationId(rows) ==
    \A i, j \in DOMAIN rows : rows[i].conversation_id = rows[j].conversation_id => i = j

StoreReturns(t) ==
    /\ req[t].op = "store_conversation"
    /\ pc[t] # "idle"
    /\ pc'[t] = "idle"

\* C18: after any sequence of store_conversation calls the store holds at most one
\* Conversation row and at most one Triage Record row per conversation_id, and a
\* call with a conversation_id that is already stored returns False and leaves
\* every table as it was before the call.
C18_OneRowPerConversationId ==
    /\ [](OnePerConversationId(committed.conversations)
          /\ OnePerConversationId(committed.triage_history)
          /\ OnePerConversationId(db.conversations)
          /\ OnePerConversationId(db.triage_history))
    /\ [][\A t \in Threads :
            (StoreReturns(t) /\ HasConversation(req[t].snap, req[t].conversation_id)) =>
                /\ req'[t].ret = "False"
                /\ db' = req[t].snap
                /\ committed' = req[t].snap]_vars

C18_Witness ==
    \E t \in Threads :
        /\ pc[t] = "idle"
        /\ req[t].op = "store_conversation"
        /\ HasConversation(req[t].snap, req[t].conversation_id)
        /\ req[t].ret = "False"
        /\ HasConversation(committed, req[t].conversation_id)
        /\ HasTriage(committed, req[t].conversation_id)
        /\ committed = req[t].snap

HasPatient(d, pid) == \E r \in Rows(d.patients) : r.patient_id = pid

\* C19: in every state of the store, each Conversation, Triage Record and Session
\* row has the patient_id of an existing Patient row and each Triage Record has
\* the conversation_id of an existing Conversation row, so a conversation stored
\* or a session created for an unknown patient_id adds no row.
C19_ReferencesResolve ==
    /\ \A r \in Rows(committed.conversations) : HasPatient(committed, r.patient_id)
    /\ \A r \in Rows(committed.triage_history) :
           /\ HasPatient(committed, r.patient_id)
           /\ HasConversation(committed, r.conversation_id)
    /\ \A r \in Rows(committed.sessions) : HasPatient(committed, r.patient_id)

----------------------------------------------------------------------------
(* Properties of the escalation check on errors                            *)

\* The call met an exception: a statement of the try block failed, or the age of
\* the context is a text and `age < 2` raised TypeError.
SubCheckRaised ==
    /\ EscalationReturned
    /\ \/ out.crash
       \/ out.patient_context.age.kind = "str"

\* C20: when a sub-check or lookup inside check_escalation_needed raises, the call
\* still returns a decision, and the decision is required = true with level
\* 'urgent'.
C20_ErrorEscalates ==
    SubCheckRaised =>
        /\ out.result.required
        /\ out.result.level = "urgent"

\* Witness of C20: the comparison of a text age raised in the context check of a
\* call whose score and symptoms alone ask for no escalation.
C20_Witness ==
    /\ SubCheckRaised
    /\ ~out.crash
    /\ out.urgency_score = 5
    /\ out.symptoms = <<>>
    /\ out.result.required
    /\ out.result.level = "urgent"

----------------------------------------------------------------------------
(* Properties of the context modifiers of the scoring                      *)

ModifiersReturned == out.fn = "apply_context_modifiers" /\ ~out.result.raised

IndicatorModifier(patient_context) ==
    IF DictGet(patient_context.urgency_indicators, "urgency_level", None) = "high" THEN 2 ELSE 0

\* The number of the three scored conditions the history text holds.
ScoredConditions(patient_context) ==
    Cardinality({c \in {"diabetes", "heart disease", "hypertension"} :
                    Contains(c, lower(patient_context.medical_history))})

\* C21: for every context with a numeric age, age 0 included, the age modifier of
\* the scoring is +2 when age < 2, +1 when age > 65 and 0 otherwise.
C21_AgeModifierOfNumericAge ==
    (ModifiersReturned /\ out.patient_context.age.kind = "int") =>
        LET age == out.patient_context.age.v
            expected == IF age < 2 THEN 2 ELSE IF age > 65 THEN 1 ELSE 0
        IN out.result.modified_score
               = out.base_score + expected + ScoredConditions(out.patient_context)
                 + IndicatorModifier(out.patient_context)

\* The five condition keywords of the specification.
SpecifiedConditions ==
    {"diabetes", "heart disease", "hypertension", "cancer", "immunocompromised"}

\* C22: the scoring adds +1 for each distinct keyword among diabetes, heart
\* disease, hypertension, cancer and immunocompromised found in the history text:
\* a history with k of the five raises the unclamped score by exactly k.
C22_OnePointPerCondition ==
    ModifiersReturned =>
        LET k == Cardinality({c \in SpecifiedConditions :
                                 Contains(c, lower(out.patient_context.medical_history))})
        IN out.result.modified_score
               = out.base_score + k + AgeModifier(out.patient_context.age)
                 + IndicatorModifier(out.patient_context)

----------------------------------------------------------------------------
(* Properties of the escalation context check                              *)

HistoryHasHighRiskKeyword(patient_context) ==
    \E c \in escalation_high_risk_conditions :
        Contains(c, lower(patient_context.medical_history))

\* C23: the context check of the escalation returns required = true exactly when
\* the age is below 2 (age 0 included) or above 75, or the history holds a
\* high-risk keyword, or at least 5 symptoms were passed to the decision.
C23_ContextCheckExact ==
    (EscalationReturned /\ ~EscalationFailed) =>
        LET age == out.patient_context.age
        IN out.result.reasons.context.required
               <=> \/ age.kind = "int" /\ (age.v < 2 \/ age.v > 75)
                   \/ HistoryHasHighRiskKeyword(out.patient_context)
                   \/ Len(out.symptoms) >= 5

----------------------------------------------------------------------------
(* Properties of the persisted triage record                               *)

\* C24: for each message the pipeline processed, the Triage Record stored with the
\* conversation holds the symptom observations extracted from that message; the
\* stored list is empty only when no symptom was extracted.
C24_TriageRowHoldsSymptoms ==
    \A x \in Rows(committed.triage_history), r \in Rows(committed.conversations) :
        x.conversation_id = r.conversation_id =>
            x.symptoms = ExtractedSymptoms[decrypt_data(r.encrypted_user_message)]

----------------------------------------------------------------------------
(* Properties of the knowledge retrieval                                   *)

KnowledgeReturned == out.fn = "retrieve_medical_knowledge"

\* The documents a lookup contributes: none when it raised.
Hits(n) == IF n < 0 THEN 0 ELSE n

\* C25: in retrieve_medical_knowledge the failure of one of the three lookups counts
\* as that lookup returning no hit and fails neither the call nor the other two
\* lookups; the confidence is 0.8 when the symptom and the condition lookups both
\* returned a hit, 0.6 when exactly one did and 0.3 when neither did.
C25_LookupFailureIsolated ==
    (KnowledgeReturned /\ ~out.crash) =>
        LET symptom_hits == Hits(out.search.symptoms)
            condition_hits == Hits(out.search.conditions)
            treatment_hits == Hits(out.search.treatments)
        IN /\ "error" \notin DOMAIN out.result
           /\ out.result.warning_signs = AtMost(symptom_hits, 5)
           /\ out.result.conditions = AtMost(condition_hits, 3)
           /\ out.result.treatments = AtMost(treatment_hits, 2)
           /\ out.result.confidence_score =
                  IF symptom_hits > 0 /\ condition_hits > 0 THEN "0.8"
                  ELSE IF symptom_hits > 0 \/ condition_hits > 0 THEN "0.6"
                  ELSE "0.3"

\* Witness of C25: the symptom lookup raised while the other two found documents.
C25_Witness ==
    /\ KnowledgeReturned
    /\ ~out.crash
    /\ out.search = [symptoms |-> -1, conditions |-> 1, treatments |-> 1]
    /\ out.result.confidence_score = "0.6"
    /\ out.result.conditions = 1
    /\ out.result.treatments = 1
    /\ out.result.warning_signs = 0

----------------------------------------------------------------------------
(* Properties relating the escalation decision to its level and to triage  *)

\* C26: in every output of check_escalation_needed, the error fallback included,
\* required is true if and only if the level is not 'routine'.
C26_RequiredIffNotRoutine ==
    EscalationReturned => (out.result.required <=> out.result.level # "routine")

\* Witness of C26: the context check alone made the decision required, at level
\* 'priority'.
C26_Witness ==
    /\ EscalationReturned
    /\ ~EscalationFailed
    /\ ~out.result.reasons.urgency.required
    /\ ~out.result.reasons.symptoms.required
    /\ out.result.required
    /\ out.result.level = "priority"

\* C27: in every request in which no stage fails, the escalation decision agrees
\* with the triage result it was computed from: level 'critical' gives escalation
\* 'emergency', level 'high' gives 'urgent' or 'emergency', both with
\* required=true, and the escalation is never 'routine' for a score of 6 or more.
C27_EscalationAgreesWithTriage ==
    [][\A m \in ThresholdMessages, c \in RequestContexts :
          (InSession /\ process_patient_message(m, c, "none") /\ resp'.status = 200) =>
              LET urgency_assessment == resp'.body.urgency_assessment
                  escalation == resp'.body.escalation
              IN /\ urgency_assessment.level = "critical" =>
                        escalation.required /\ escalation.level = "emergency"
                 /\ urgency_assessment.level = "high" =>
                        escalation.required /\ escalation.level \in {"urgent", "emergency"}
                 /\ urgency_assessment.score >= 6 => escalation.level # "routine"]_vars

\* Witness of C27: 'I am bleeding' was scored 6, level 'high', and escalated as
\* 'urgent' by the urgency check alone.
C27_Witness ==
    /\ MessageReply
    /\ resp.status = 200
    /\ resp.body.urgency_assessment.score = 6
    /\ resp.body.urgency_assessment.level = "high"
    /\ "error" \notin DOMAIN resp.body.escalation
    /\ ~resp.body.escalation.reasons.symptoms.required
    /\ ~resp.body.escalation.reasons.context.required
    /\ resp.body.escalation.level = "urgent"

\* C28: every message whose text holds 'chest pain' in any letter case, processed
\* with any context and no stage failing, is answered with a score of at least 8,
\* level 'critical' and an escalation required=true of level 'emergency'.
C28_ChestPainAlwaysCritical ==
    [][\A m \in ThresholdMessages, c \in RequestContexts :
          (/\ Contains("chest pain", lower(m))
           /\ InSession
           /\ process_patient_message(m, c, "none")
           /\ resp'.status = 200) =>
              /\ resp'.body.urgency_assessment.score >= 8
              /\ resp'.body.urgency_assessment.level = "critical"
              /\ resp'.body.escalation.required
              /\ resp'.body.escalation.level = "emergency"]_vars

\* Witness of C28: the exchange on 'CHEST PAIN' is stored and answered as critical.
C28_Witness ==
    /\ MessageReply
    /\ resp.status = 200
    /\ resp.body.urgency_assessment.score >= 8
    /\ "error" \notin DOMAIN resp.body.escalation
    /\ \E r \in Rows(committed.conversations) :
          /\ r.conversation_id = resp.body.conversation_id
          /\ decrypt_data(r.encrypted_user_message) = "CHEST PAIN"

----------------------------------------------------------------------------
(* Properties of the session cleanup                                       *)

VerifyResults == [p \in PatientIds, k \in SessionTokens |-> verify_session(p, k)]

----------------------------------------------------------------------------
(* Properties of the patient records                                       *)

PatientRowsOf(d, pid) == {i \in DOMAIN d.patients : d.patients[i].patient_id = pid}

\* What a call's arguments say the patient row holds.
HoldsArguments(row, a) ==
    /\ row.active
    /\ row.encrypted_medical_history # NULL => decrypt_data(row.encrypted_medical_history) = a.medical_history
    /\ row.encrypted_medical_history = NULL => a.medical_history = ""
    /\ row.age_range = (IF "demographics" \in DOMAIN a /\ "age_range" \in DOMAIN a.demographics
                        THEN a.demographics.age_range ELSE None)

\* C30: after any sequence of create_patient calls there is one Patient row per
\* patient_id; the row is active and holds the medical history and demographics of
\* the latest successful call for that id, a repeated create replacing the earlier
\* record; the conversations, triage records, sessions and audit events already
\* stored are left as they were.
C30_OnePatientRowOfLatestCall ==
    /\ [](\A p \in PatientIds : Cardinality(PatientRowsOf(committed, p)) <= 1)
    /\ [][\A t \in Threads :
            /\ create_patient_commit(t) =>
                  /\ \E i \in DOMAIN committed'.patients :
                        /\ PatientRowsOf(committed', req[t].patient_id) = {i}
                        /\ HoldsArguments(committed'.patients[i], req[t])
                  /\ \A r \in Rows(committed.patients) :
                        r.patient_id # req[t].patient_id => r \in Rows(committed'.patients)
                  /\ committed'.conversations = committed.conversations
                  /\ committed'.triage_history = committed.triage_history
                  /\ committed'.sessions = committed.sessions
                  /\ committed'.audit_log = committed.audit_log
            /\ create_patient_except(t) => (committed' = committed /\ db' = committed)
            /\ (req[t].op = "create_patient" /\ pc[t] # "idle") =>
                  /\ SubSeq(committed'.audit_log, 1, Len(committed.audit_log)) = committed.audit_log
                  /\ committed'.conversations = committed.conversations
                  /\ committed'.triage_history = committed.triage_history
                  /\ committed'.sessions = committed.sessions]_vars

\* Witness of C30: a second create_patient of p1 replaced a record with a medical
\* history by one with demographics and no history.
C30_Witness ==
    /\ Idle
    /\ \E i, j \in DOMAIN committed.audit_log :
          /\ i < j
          /\ committed.audit_log[i].patient_id = "p1"
          /\ committed.audit_log[i].action = "patient_created"
          /\ committed.audit_log[j].patient_id = "p1"
          /\ committed.audit_log[j].action = "patient_created"
    /\ \E i \in DOMAIN committed.patients :
          /\ PatientRowsOf(committed, "p1") = {i}
          /\ committed.patients[i].encrypted_medical_history = NULL
          /\ committed.patients[i].age_range = "65+"

====
